---- MODULE Spec2Model ----
(***************************************************************************)
(* bk: a CLI that prints Bash keyboard shortcuts by category, with a      *)
(* self-uninstall action.  The model follows src/main.rs statement by     *)
(* statement: argument parsing (clap derive on Args), the uninstall       *)
(* routine, the registry built by init_shortcuts and the table rendering  *)
(* of display_shortcuts.                                                  *)
(*                                                                        *)
(* A table is a sequence of rows and a row is a sequence of cells.  Cell  *)
(* text is kept verbatim; the line wrapping of the Description column     *)
(* (Wrap::new(60)) changes only the layout inside a cell and is not       *)
(* represented.                                                           *)
(***************************************************************************)
EXTENDS Integers, Sequences, FiniteSets, TLC

\* ------------------------------------------------------------------------
\* Bounds of the model
\* ------------------------------------------------------------------------

\* longest argument list given to the program
MaxArgs == 3

\* longest line body (without the line terminator) typed on standard input
MaxLine == 3

\* longest entry list handed to display_shortcuts in the rendering check
MaxList == 3

\* ------------------------------------------------------------------------
\* Shortcut and the registry (init_shortcuts)
\* ------------------------------------------------------------------------

Shortcut(key, description) == [key |-> key, description |-> description]

MovementShortcuts ==
    << Shortcut("Ctrl+a", "Go to the beginning of the line (Home)"),
       Shortcut("Ctrl+e", "Go to the End of the line (End)"),
       Shortcut("Ctrl+f", "Forward one character (Right arrow)"),
       Shortcut("Ctrl+b", "Backward one character (Left arrow)"),
       Shortcut("Alt+f", "Forward (right) one word (Alt-Right arrow)"),
       Shortcut("Alt+b", "Back (left) one word (Alt-Left arrow)"),
       Shortcut("Ctrl+xx", "Toggle between the start of line and current cursor position") >>

EditShortcuts ==
    << Shortcut("Ctrl+l", "Clear the Screen, similar to the clear command"),
       Shortcut("Alt+Del", "Delete the Word before the cursor"),
       Shortcut("Alt+d", "Delete the Word after the cursor"),
       Shortcut("Ctrl+d", "Delete character under the cursor"),
       Shortcut("Ctrl+h", "Delete character before the cursor (Backspace)"),
       Shortcut("Ctrl+w", "Cut the Word before the cursor to the clipboard"),
       Shortcut("Ctrl+k", "Cut the Line after the cursor to the clipboard"),
       Shortcut("Ctrl+u", "Cut/delete the Line before the cursor to the clipboard"),
       Shortcut("Alt+t", "Swap current word with previous"),
       Shortcut("Ctrl+t", "Swap the last two characters before the cursor (typo)"),
       Shortcut("Esc+t", "Swap the last two words before the cursor"),
       Shortcut("Ctrl+y", "Paste the last thing to be cut (yank)"),
       Shortcut("Alt+u", "UPPER capitalize every character from the cursor to the end of the current word"),
       Shortcut("Alt+l", "Lower the case of every character from the cursor to the end of the current word"),
       Shortcut("Alt+c", "Capitalize the character under the cursor and move to the end of the word"),
       Shortcut("Alt+r", "Cancel the changes and put back the line as it was in the history (revert)"),
       Shortcut("Ctrl+_", "Undo"),
       Shortcut("Tab", "Tab completion for file/directory names") >>

HistoryShortcuts ==
    << Shortcut("Ctrl+r", "Recall the last command including the specified character(s). Search the command history as you type"),
       Shortcut("Ctrl+p", "Previous command in history (walk back)"),
       Shortcut("Ctrl+n", "Next command in history (walk forward)"),
       Shortcut("Ctrl+s", "Go back to the next most recent command"),
       Shortcut("Ctrl+o", "Execute the command found via Ctrl+r or Ctrl+s"),
       Shortcut("Ctrl+g", "Escape from history searching mode"),
       Shortcut("!!", "Repeat last command"),
       Shortcut("!n", "Repeat from the last command: args n e.g. !:2 for the second argument"),
       Shortcut("!n:m", "Repeat from the last command: args from n to m. e.g. !:2-3 for the second and third"),
       Shortcut("!n:$", "Repeat from the last command: args n to the last argument"),
       Shortcut("!n:p", "Print last command starting with n"),
       Shortcut("!string", "Print the last command beginning with string"),
       Shortcut("!:q", "Quote the last command with proper Bash escaping applied"),
       Shortcut("!$", "Last argument of previous command"),
       Shortcut("Alt+.", "Last argument of previous command"),
       Shortcut("!*", "All arguments of previous command"),
       Shortcut("^abc^def", "Run previous command, replacing abc with def") >>

ProcessShortcuts ==
    << Shortcut("Ctrl+c", "Interrupt/Kill whatever you are running (SIGINT)"),
       Shortcut("Ctrl+l", "Clear the screen"),
       Shortcut("Ctrl+s", "Stop output to the screen (for long running verbose commands). Then use PgUp/PgDn for navigation"),
       Shortcut("Ctrl+q", "Allow output to the screen (if previously stopped using command above)"),
       Shortcut("Ctrl+d", "Send an EOF marker, unless disabled by an option, this will close the current shell (EXIT)"),
       Shortcut("Ctrl+z", "Send the signal SIGTSTP to the current task, which suspends it. To return to it later enter 'fg process name' (foreground)") >>

\* HashMap::new(): the map before any insert
EmptyMap == [k \in {} |-> << >>]

\* shortcuts.insert(k, v)
Insert(map, k, v) == [x \in (DOMAIN map) \cup {k} |-> IF x = k THEN v ELSE map[x]]

\* the four inserts of init_shortcuts, in the order of the source
init_shortcuts ==
    Insert(Insert(Insert(Insert(EmptyMap,
        "Movement", MovementShortcuts),
        "Edit", EditShortcuts),
        "History", HistoryShortcuts),
        "Process", ProcessShortcuts)

\* HashMap::contains_key: string keys compare byte for byte
ContainsKey(map, k) == k \in DOMAIN map

\* ------------------------------------------------------------------------
\* Table rendering (display_shortcuts)
\* ------------------------------------------------------------------------

\* the Tabled derive on Shortcut: column `description` has order 0 and
\* column `key` order 1
ColumnNames == << "Description", "Shortcut" >>

Fields(s) == << s.description, s.key >>

\* Table::new(shortcuts): the row of column names, then one row per entry
TableNew(shortcuts) ==
    << ColumnNames >> \o [i \in 1..Len(shortcuts) |-> Fields(shortcuts[i])]

\* Panel::header(text): a one-cell row put above the table
PanelHeader(table, text) == << << text >> >> \o table

\* RemoveRow with the index taken as 1-based: Rows::one(1) would drop the
\* first row
RemoveRowOneBased(table, n) ==
    IF n \in 1..Len(table)
    THEN SubSeq(table, 1, n - 1) \o SubSeq(table, n + 1, Len(table))
    ELSE table

\* Remove::row(Rows::one(n)): drops the row of 0-based index n when there is one
RemoveRow(table, n) ==
    IF n + 1 \in 1..Len(table)
    THEN SubSeq(table, 1, n) \o SubSeq(table, n + 2, Len(table))
    ELSE table

\* the index given to Rows::one in display_shortcuts
RemovedRowIndex == 1

\* format!("{} related shortcuts", category)
HeaderText(category) == category \o " related shortcuts"

\* the table display_shortcuts prints
display_shortcuts(shortcuts, category) ==
    RemoveRow(PanelHeader(TableNew(shortcuts), HeaderText(category)), RemovedRowIndex)

\* ------------------------------------------------------------------------
\* Command line (struct Args, parsed by the clap derive)
\* ------------------------------------------------------------------------

\* the arguments tried; every kind of argument the tests of main.rs use,
\* and the help and version flags the #[command] attribute declares
Tokens ==
    { "-m", "-e", "-r", "-p", "-me", "-rp", "--movement", "--uninstall", "--",
      "--help", "--version",
      "-x", "--unknown", "--movement=true", "--uninstall=true", "extra_arg" }

ArgLists == UNION { [1..n -> Tokens] : n \in 0..MaxArgs }

\* how an argument reads: a cluster of short flags, a long flag with or
\* without an attached value, the end-of-options marker, or a plain word
Lex(tok) ==
    CASE tok = "-m" -> [kind |-> "short", flags |-> << "m" >>]
      [] tok = "-e" -> [kind |-> "short", flags |-> << "e" >>]
      [] tok = "-r" -> [kind |-> "short", flags |-> << "r" >>]
      [] tok = "-p" -> [kind |-> "short", flags |-> << "p" >>]
      [] tok = "-me" -> [kind |-> "short", flags |-> << "m", "e" >>]
      [] tok = "-rp" -> [kind |-> "short", flags |-> << "r", "p" >>]
      [] tok = "-x" -> [kind |-> "short", flags |-> << "x" >>]
      [] tok = "--movement" -> [kind |-> "long", name |-> "movement", value |-> FALSE]
      [] tok = "--uninstall" -> [kind |-> "long", name |-> "uninstall", value |-> FALSE]
      [] tok = "--help" -> [kind |-> "long", name |-> "help", value |-> FALSE]
      [] tok = "--version" -> [kind |-> "long", name |-> "version", value |-> FALSE]
      [] tok = "--unknown" -> [kind |-> "long", name |-> "unknown", value |-> FALSE]
      [] tok = "--movement=true" -> [kind |-> "long", name |-> "movement", value |-> TRUE]
      [] tok = "--uninstall=true" -> [kind |-> "long", name |-> "uninstall", value |-> TRUE]
      [] tok = "--" -> [kind |-> "escape"]
      [] OTHER -> [kind |-> "positional"]

\* the fields of Args, all false until their flag is seen
Fields_Args == { "movement", "edit", "recall", "process", "uninstall" }

DefaultArgs == [f \in Fields_Args |-> FALSE]

\* #[arg(short, long)]: the short flag is the first letter of the field;
\* uninstall is #[arg(long)] only
ShortName(c) ==
    CASE c = "m" -> "movement"
      [] c = "e" -> "edit"
      [] c = "r" -> "recall"
      [] c = "p" -> "process"
      [] OTHER -> "unknown"

Ok(a) == [kind |-> "Ok", args |-> a]

Err(k, tok) == [kind |-> k, arg |-> tok]

\* one occurrence of flag `name`: a bool field is set once, a second
\* occurrence is refused; help and version stop the parse
SetFlag(a, name, tok) ==
    IF name = "help" THEN Err("DisplayHelp", tok)
    ELSE IF name = "version" THEN Err("DisplayVersion", tok)
    ELSE IF name \notin Fields_Args THEN Err("UnknownArgument", tok)
    ELSE IF a[name] THEN Err("ArgumentConflict", tok)
    ELSE Ok([a EXCEPT ![name] = TRUE])

RECURSIVE ParseShorts(_, _, _)
ParseShorts(flags, a, tok) ==
    IF flags = << >> THEN Ok(a)
    ELSE LET r == SetFlag(a, ShortName(Head(flags)), tok)
         IN  IF r.kind = "Ok" THEN ParseShorts(Tail(flags), r.args, tok) ELSE r

\* a long flag: the name is looked up first, then a bool flag given a value
\* is refused
ParseLong(l, a, tok) ==
    IF l.name \notin Fields_Args \cup { "help", "version" } THEN Err("UnknownArgument", tok)
    ELSE IF l.value THEN Err("TooManyValues", tok)
    ELSE SetFlag(a, l.name, tok)

\* the arguments are read left to right; the first error, help or version
\* flag ends the parse.  Args declares no positional, so a plain word, and
\* anything after "--", is an unknown argument
RECURSIVE ParseArgs(_, _, _)
ParseArgs(list, a, trailing) ==
    IF list = << >> THEN Ok(a)
    ELSE LET tok == Head(list)
             l == Lex(tok)
             r == IF trailing \/ l.kind = "positional" THEN Err("UnknownArgument", tok)
                  ELSE IF l.kind = "escape" THEN Ok(a)
                  ELSE IF l.kind = "short" THEN ParseShorts(l.flags, a, tok)
                  ELSE ParseLong(l, a, tok)
         IN  IF r.kind = "Ok"
             THEN ParseArgs(Tail(list), r.args, trailing \/ l.kind = "escape")
             ELSE r

\* a parser that skips what it does not know instead of refusing it
try_parse_from_lenient(list) ==
    ParseArgs(SelectSeq(list, LAMBDA t : Lex(t).kind \in { "short", "long", "escape" }
                                          /\ t \notin { "-x", "--unknown" }
                                          /\ (Lex(t).kind = "long" => ~Lex(t).value)),
              DefaultArgs, FALSE)

\* Args::try_parse_from(["bk", list...])
try_parse_from(list) == ParseArgs(list, DefaultArgs, FALSE)

\* exit status of the process when main returns
ReturnCode == 0

\* exit status Args::parse() ends the process with on a usage error
UsageCode == 2

\* std::process::exit(1) after a failed uninstall
UninstallErrorCode == 1

\* ------------------------------------------------------------------------
\* Standard input and the confirmation (handle_uninstall)
\* ------------------------------------------------------------------------

LineChars == { "y", "Y", "e", "s", "n", " " }

LineBodies == UNION { [1..n -> LineChars] : n \in 0..MaxLine }

\* what read_line can put in `input`: a line with its terminator, a last
\* line without one, or nothing at end of stream
Lines == LineBodies \cup { b \o << "\n" >> : b \in LineBodies }

EndOfStream == << >>

IsWhitespace(c) == c \in { " ", "\n", "\t", "\r" }

RECURSIVE TrimStart(_)
TrimStart(s) ==
    IF s /= << >> /\ IsWhitespace(Head(s)) THEN TrimStart(Tail(s)) ELSE s

RECURSIVE TrimEnd(_)
TrimEnd(s) ==
    IF s /= << >> /\ IsWhitespace(s[Len(s)]) THEN TrimEnd(SubSeq(s, 1, Len(s) - 1)) ELSE s

\* str::trim
Trim(s) == TrimEnd(TrimStart(s))

LowerChar(c) ==
    CASE c = "Y" -> "y"
      [] c = "E" -> "e"
      [] c = "S" -> "s"
      [] c = "N" -> "n"
      [] OTHER -> c

\* str::to_lowercase
ToLowercase(s) == [i \in 1..Len(s) |-> LowerChar(s[i])]

\* a comparison that takes any answer starting with "y" for a yes
IsAffirmativePrefix(s) == s /= << >> /\ Head(s) = "y"

\* input == "y" || input == "yes"
IsAffirmative(s) == s = << "y" >> \/ s = << "y", "e", "s" >>

\* where the running executable can be installed
ExePaths == { "/usr/local/bin/bk", "/home/user/.cargo/bin/bk" }

\* causes for which fs::remove_file leaves the file in place
RemoveErrors == { "Permission denied", "Text file busy" }

StdinKinds == { "tty", "pipe", "closed" }

\* ------------------------------------------------------------------------
\* State of one run of the program
\* ------------------------------------------------------------------------

VARIABLES
    pc,               \* the statement of main / handle_uninstall to run next
    argv,             \* the command line Args::parse() has still to read
    args,             \* main's `args`
    shortcuts_map,    \* main's `shortcuts_map`
    stdout,           \* what has been written to standard output
    stderr,           \* what has been written to standard error
    exit,             \* << >> while running, << code >> once the process ended
    stdinKind,        \* what standard input is connected to
    readResult,       \* outcome of read_line: "none" until it is called
    line,             \* the line read_line took from standard input
    input,            \* handle_uninstall's `input`
    exe_path,         \* handle_uninstall's `exe_path`
    exeExists,        \* whether the executable file is on disk
    removeResult,     \* outcome of fs::remove_file: "none" until it is called
    uninstallEntered  \* whether handle_uninstall has been called

vars == << pc, argv, args, shortcuts_map, stdout, stderr, exit, stdinKind,
           readResult, line, input, exe_path, exeExists, removeResult, uninstallEntered >>

uninstallVars == << stdinKind, readResult, line, input, exe_path, exeExists, removeResult >>

Text(t) == [type |-> "text", text |-> t]

TableOut(t) == [type |-> "table", table |-> t]

\* println!("{}\n", table) in display_shortcuts
PrintTable(out, shortcuts, category) ==
    Append(out, TableOut(display_shortcuts(shortcuts, category)))

\* the process starts with the executable on disk (it was loaded from it)
\* and nothing written
Init ==
    /\ pc = "parse"
    /\ argv \in ArgLists
    /\ args = DefaultArgs
    /\ shortcuts_map = EmptyMap
    /\ stdout = << >>
    /\ stderr = << >>
    /\ exit = << >>
    /\ stdinKind \in StdinKinds
    /\ readResult = "none"
    /\ line = << >>
    /\ input = << >>
    /\ exe_path = "unset"
    /\ exeExists = TRUE
    /\ removeResult = "none"
    /\ uninstallEntered = FALSE

\* ------------------------------------------------------------------------
\* main: argument parsing
\* ------------------------------------------------------------------------

\* let args = Args::parse();  -- the arguments are well formed
ParseOk ==
    /\ pc = "parse"
    /\ LET r == try_parse_from(argv)
       IN  /\ r.kind = "Ok"
           /\ args' = r.args
    /\ argv' = << >>
    /\ pc' = "uninstall?"
    /\ UNCHANGED << shortcuts_map, stdout, stderr, exit, uninstallVars, uninstallEntered >>

\* Args::parse() met --help or --version: the text goes to standard output
\* and the process ends successfully
ParseInfo ==
    /\ pc = "parse"
    /\ LET r == try_parse_from(argv)
       IN  /\ r.kind \in { "DisplayHelp", "DisplayVersion" }
           /\ stdout' = Append(stdout, [type |-> r.kind])
    /\ argv' = << >>
    /\ exit' = << ReturnCode >>
    /\ pc' = "done"
    /\ UNCHANGED << args, shortcuts_map, stderr, uninstallVars, uninstallEntered >>

\* Args::parse() refused the arguments: the error goes to standard error
\* and the process ends with the usage status
ParseError ==
    /\ pc = "parse"
    /\ LET r == try_parse_from(argv)
       IN  /\ r.kind \notin { "Ok", "DisplayHelp", "DisplayVersion" }
           /\ stderr' = Append(stderr, [type |-> "usage", error |-> r.kind, arg |-> r.arg])
    /\ argv' = << >>
    /\ exit' = << UsageCode >>
    /\ pc' = "done"
    /\ UNCHANGED << args, shortcuts_map, stdout, uninstallVars, uninstallEntered >>

\* ------------------------------------------------------------------------
\* main: uninstall
\* ------------------------------------------------------------------------

\* if args.uninstall { handle_uninstall() ...
EnterUninstall ==
    /\ pc = "uninstall?"
    /\ args.uninstall
    /\ uninstallEntered' = TRUE
    /\ pc' = "resolve"
    /\ UNCHANGED << argv, args, shortcuts_map, stdout, stderr, exit, uninstallVars >>

\* ... } else: fall through to the tables
SkipUninstall ==
    /\ pc = "uninstall?"
    /\ ~args.uninstall
    /\ pc' = "init"
    /\ UNCHANGED << argv, args, shortcuts_map, stdout, stderr, exit, uninstallVars,
                    uninstallEntered >>

\* main without the `return` after the uninstall: it goes on to the tables
AfterUninstallFallsThrough == "init"

\* where main goes once handle_uninstall returned Ok: `return`
AfterUninstall == "done"

\* handle_uninstall returns Ok(()): main returns
UninstallReturnsOk ==
    /\ pc' = AfterUninstall
    /\ exit' = << ReturnCode >>

\* main reporting the error but ending with status 0
UninstallReturnsErrZero(written, e) ==
    /\ stderr' = written \o << Text("Error during uninstall: " \o e) >>
    /\ exit' = << ReturnCode >>
    /\ pc' = "done"

\* handle_uninstall returns Err(e): main reports it and exits with status 1
UninstallReturnsErr(written, e) ==
    /\ stderr' = written \o << Text("Error during uninstall: " \o e) >>
    /\ exit' = << UninstallErrorCode >>
    /\ pc' = "done"

\* let exe_path = get_current_exe_path()?;  -- the platform gives the path
ResolveOk ==
    /\ pc = "resolve"
    /\ \E p \in ExePaths : exe_path' = p
    /\ pc' = "prompt"
    /\ UNCHANGED << argv, args, shortcuts_map, stdout, stderr, exit, stdinKind,
                    readResult, line, input, exeExists, removeResult, uninstallEntered >>

\* get_current_exe_path()?  -- the platform cannot give the path
ResolveErr ==
    /\ pc = "resolve"
    /\ UninstallReturnsErr(stderr, "Failed to get current executable path")
    /\ UNCHANGED << argv, args, shortcuts_map, stdout, uninstallVars, uninstallEntered >>

\* the four prints before the flush
Prompt(out, path) ==
    out \o << Text("This will permanently delete the 'bk' binary from:"),
              Text("  " \o path),
              Text(""),
              Text("Are you sure you want to uninstall? (y/N): ") >>

\* the prompt is printed and flushed
PromptOk ==
    /\ pc = "prompt"
    /\ stdout' = Prompt(stdout, exe_path)
    /\ pc' = "read"
    /\ UNCHANGED << argv, args, shortcuts_map, stderr, exit, uninstallVars, uninstallEntered >>

\* io::stdout().flush()? fails
PromptFlushErr ==
    /\ pc = "prompt"
    /\ stdout' = Prompt(stdout, exe_path)
    /\ UninstallReturnsErr(stderr, "flush failed")
    /\ UNCHANGED << argv, args, shortcuts_map, uninstallVars, uninstallEntered >>

\* what standard input can deliver: nothing but end of stream when it is
\* closed, any line otherwise, whether typed or fed through a pipe
Readable(kind) == IF kind = "closed" THEN { EndOfStream } ELSE Lines \cup { EndOfStream }

\* io::stdin().read_line(&mut input)? gives a line (empty at end of stream);
\* read_line never asks what standard input is connected to
ReadLineOk ==
    /\ pc = "read"
    /\ \E l \in Readable(stdinKind) :
          /\ line' = l
          /\ input' = l
    /\ readResult' = "ok"
    /\ pc' = "confirm"
    /\ UNCHANGED << argv, args, shortcuts_map, stdout, stderr, exit, stdinKind, exe_path,
                    exeExists, removeResult, uninstallEntered >>

\* read_line fails (a read error, or bytes that are not UTF-8)
ReadLineErr ==
    /\ pc = "read"
    /\ stdinKind /= "closed"
    /\ readResult' = "err"
    /\ UninstallReturnsErr(stderr, "read failed")
    /\ UNCHANGED << argv, args, shortcuts_map, stdout, stdinKind, line, input, exe_path,
                    exeExists, removeResult, uninstallEntered >>

\* let input = input.trim().to_lowercase();
Normalized(s) == ToLowercase(Trim(s))

\* the answer is yes and fs::remove_file succeeds
ConfirmRemoveOk ==
    /\ pc = "confirm"
    /\ input' = Normalized(input)
    /\ IsAffirmative(input')
    /\ removeResult' = "ok"
    /\ exeExists' = FALSE
    /\ stdout' = stdout \o << Text("Successfully uninstalled 'bk' from " \o exe_path),
                              Text("Thank you for using bk!") >>
    /\ UninstallReturnsOk
    /\ UNCHANGED << argv, args, shortcuts_map, stderr, stdinKind, readResult, line,
                    exe_path, uninstallEntered >>

\* the Err arm without its `return Err(e.into())`: the routine ends in Ok(())
ConfirmRemoveErrSwallowed ==
    /\ pc = "confirm"
    /\ input' = Normalized(input)
    /\ IsAffirmative(input')
    /\ removeResult' = "err"
    /\ \E e \in RemoveErrors :
          stderr' = stderr \o << Text("Failed to remove binary: " \o e),
                                 Text("You may need to run with elevated privileges or remove it manually.") >>
    /\ UninstallReturnsOk
    /\ UNCHANGED << argv, args, shortcuts_map, stdout, stdinKind, readResult, line,
                    exe_path, exeExists, uninstallEntered >>

\* the answer is yes and fs::remove_file fails: the file stays
ConfirmRemoveErr ==
    /\ pc = "confirm"
    /\ input' = Normalized(input)
    /\ IsAffirmative(input')
    /\ removeResult' = "err"
    /\ \E e \in RemoveErrors :
          UninstallReturnsErr(
              stderr \o << Text("Failed to remove binary: " \o e),
                           Text("You may need to run with elevated privileges or remove it manually.") >>,
              e)
    /\ UNCHANGED << argv, args, shortcuts_map, stdout, stdinKind, readResult, line,
                    exe_path, exeExists, uninstallEntered >>

\* any other answer cancels
ConfirmCancel ==
    /\ pc = "confirm"
    /\ input' = Normalized(input)
    /\ ~IsAffirmative(input')
    /\ stdout' = Append(stdout, Text("Uninstall cancelled."))
    /\ UninstallReturnsOk
    /\ UNCHANGED << argv, args, shortcuts_map, stderr, stdinKind, readResult, line,
                    exe_path, exeExists, removeResult, uninstallEntered >>

\* ------------------------------------------------------------------------
\* main: the tables
\* ------------------------------------------------------------------------

\* let shortcuts_map = init_shortcuts();
InitShortcuts ==
    /\ pc = "init"
    /\ shortcuts_map' = init_shortcuts
    /\ pc' = "select"
    /\ UNCHANGED << argv, args, stdout, stderr, exit, uninstallVars, uninstallEntered >>

\* the display order with the first two categories exchanged
categoriesSwapped == << "Edit", "Movement", "History", "Process" >>

\* the display order of display_all_shortcuts
categories == << "Movement", "Edit", "History", "Process" >>

\* if let Some(shortcuts) = map.get(key) { display_shortcuts(shortcuts, category) }
DisplayIfPresent(out, map, key, category) ==
    IF ContainsKey(map, key) THEN PrintTable(out, map[key], category) ELSE out

\* for &category in &categories { ... }: the key is also the name displayed
RECURSIVE DisplayEach(_, _, _)
DisplayEach(out, map, cats) ==
    IF cats = << >> THEN out
    ELSE DisplayEach(DisplayIfPresent(out, map, Head(cats), Head(cats)), map, Tail(cats))

display_all_shortcuts(out, map) == DisplayEach(out, map, categories)

NoCategoryFlag(a) == ~a.movement /\ ~a.edit /\ ~a.recall /\ ~a.process

\* no category flag: display_all_shortcuts, return
ShowAll ==
    /\ pc = "select"
    /\ NoCategoryFlag(args)
    /\ stdout' = display_all_shortcuts(stdout, shortcuts_map)
    /\ exit' = << ReturnCode >>
    /\ pc' = "done"
    /\ UNCHANGED << argv, args, shortcuts_map, stderr, uninstallVars, uninstallEntered >>

\* some category flag: go through the four `if args.<flag>` blocks
ShowSelected ==
    /\ pc = "select"
    /\ ~NoCategoryFlag(args)
    /\ pc' = "movement"
    /\ UNCHANGED << argv, args, shortcuts_map, stdout, stderr, exit, uninstallVars,
                    uninstallEntered >>

\* if args.<flag> { if let Some(shortcuts) = shortcuts_map.get(key) {
\*     display_shortcuts(shortcuts, category) } }
DisplayIfFlag(out, a, map, flag, key, category) ==
    IF a[flag] THEN DisplayIfPresent(out, map, key, category) ELSE out

ShowMovement ==
    /\ pc = "movement"
    /\ stdout' = DisplayIfFlag(stdout, args, shortcuts_map, "movement", "Movement", "Movement")
    /\ pc' = "edit"
    /\ UNCHANGED << argv, args, shortcuts_map, stderr, exit, uninstallVars, uninstallEntered >>

ShowEdit ==
    /\ pc = "edit"
    /\ stdout' = DisplayIfFlag(stdout, args, shortcuts_map, "edit", "Edit", "Edit")
    /\ pc' = "recall"
    /\ UNCHANGED << argv, args, shortcuts_map, stderr, exit, uninstallVars, uninstallEntered >>

\* the recall flag shows the "History" entries under the name "Recall"
ShowRecall ==
    /\ pc = "recall"
    /\ stdout' = DisplayIfFlag(stdout, args, shortcuts_map, "recall", "History", "Recall")
    /\ pc' = "process"
    /\ UNCHANGED << argv, args, shortcuts_map, stderr, exit, uninstallVars, uninstallEntered >>

\* the last block; main then returns
ShowProcess ==
    /\ pc = "process"
    /\ stdout' = DisplayIfFlag(stdout, args, shortcuts_map, "process", "Process", "Process")
    /\ exit' = << ReturnCode >>
    /\ pc' = "done"
    /\ UNCHANGED << argv, args, shortcuts_map, stderr, uninstallVars, uninstallEntered >>

Next ==
    \/ ParseOk
    \/ ParseInfo
    \/ ParseError
    \/ EnterUninstall
    \/ SkipUninstall
    \/ ResolveOk
    \/ ResolveErr
    \/ PromptOk
    \/ PromptFlushErr
    \/ ReadLineOk
    \/ ReadLineErr
    \/ ConfirmRemoveOk
    \/ ConfirmRemoveErr
    \/ ConfirmCancel
    \/ InitShortcuts
    \/ ShowAll
    \/ ShowSelected
    \/ ShowMovement
    \/ ShowEdit
    \/ ShowRecall
    \/ ShowProcess

Spec == Init /\ [][Next]_vars

\* ------------------------------------------------------------------------
\* display_shortcuts on its own: any entry list, the empty one included
\* ------------------------------------------------------------------------

SampleShortcuts ==
    { Shortcut("Ctrl+a", "Go to the beginning of the line (Home)"),
      Shortcut("Ctrl+l", "Clear the screen"),
      Shortcut("Tab", "Tab completion for file/directory names") }

SampleLists == UNION { [1..n -> SampleShortcuts] : n \in 0..MaxList }

SampleCategories == { "Movement", "Recall" }

InitRender ==
    /\ pc = "display"
    /\ \E c \in SampleCategories, l \in SampleLists :
          shortcuts_map = Insert(EmptyMap, c, l)
    /\ argv = << >>
    /\ args = DefaultArgs
    /\ stdout = << >>
    /\ stderr = << >>
    /\ exit = << >>
    /\ stdinKind = "tty"
    /\ readResult = "none"
    /\ line = << >>
    /\ input = << >>
    /\ exe_path = "unset"
    /\ exeExists = TRUE
    /\ removeResult = "none"
    /\ uninstallEntered = FALSE

\* display_shortcuts(shortcuts, category) on the list stored under `category`
DisplayShortcuts ==
    /\ pc = "display"
    /\ \E c \in DOMAIN shortcuts_map :
          stdout' = PrintTable(stdout, shortcuts_map[c], c)
    /\ pc' = "displayed"
    /\ UNCHANGED << argv, args, shortcuts_map, stderr, exit, uninstallVars, uninstallEntered >>

NextRender == DisplayShortcuts

SpecRender == InitRender /\ [][NextRender]_vars

\* ------------------------------------------------------------------------
\* Properties
\* ------------------------------------------------------------------------

Range(seq) == { seq[i] : i \in 1..Len(seq) }

Tables(out) == SelectSeq(out, LAMBDA o : o.type = "table")

\* Args::parse() ended the process: a usage error or the help/version text
ParseStopped ==
    \/ \E o \in Range(stderr) : o.type = "usage"
    \/ \E o \in Range(stdout) : o.type \in { "DisplayHelp", "DisplayVersion" }

\* main went past the uninstall test and returned after the tables
TablesDone == pc = "done" /\ ~ParseStopped /\ ~args.uninstall

\* the entries of a category, as declared in init_shortcuts
EntriesOf(cat) ==
    CASE cat = "Movement" -> MovementShortcuts
      [] cat = "Edit" -> EditShortcuts
      [] cat = "Recall" -> HistoryShortcuts
      [] cat = "Process" -> ProcessShortcuts

FlagOf(cat) ==
    CASE cat = "Movement" -> "movement"
      [] cat = "Edit" -> "edit"
      [] cat = "Recall" -> "recall"
      [] cat = "Process" -> "process"

CanonicalOrder == << "Movement", "Edit", "Recall", "Process" >>

\* the categories a set of flags selects, in canonical order
Selected(a) ==
    IF \A i \in 1..Len(CanonicalOrder) : ~a[FlagOf(CanonicalOrder[i])]
    THEN CanonicalOrder
    ELSE SelectSeq(CanonicalOrder, LAMBDA c : a[FlagOf(c)])

\* the rows of a printed table below its header line
EntryRows(table) == Tail(table)

RowsFor(list) == [i \in 1..Len(list) |-> << list[i].description, list[i].key >>]

\* C1: with uninstall unset, main prints exactly one table per selected
\* category (all four when no category flag is set), each showing that
\* category's entries, in the order Movement, Edit, Recall, Process.
C1_SelectedInCanonicalOrder ==
    TablesDone =>
        /\ Len(stdout) = Len(Selected(args))
        /\ \A i \in 1..Len(stdout) :
              /\ stdout[i].type = "table"
              /\ EntryRows(stdout[i].table) = RowsFor(EntriesOf(Selected(args)[i]))

C1_Witness ==
    /\ TablesDone
    /\ args.edit /\ args.process /\ ~args.movement /\ ~args.recall
    /\ Len(stdout) = 2
    /\ EntryRows(stdout[1].table) = RowsFor(EditShortcuts)
    /\ EntryRows(stdout[2].table) = RowsFor(ProcessShortcuts)

UninstallPcs == { "uninstall?", "resolve", "prompt", "read", "confirm", "done" }

\* C2: once the uninstall flag is parsed, the uninstall routine is what runs:
\* no table is ever printed whatever the category flags are, and control
\* never reaches the table code; the process is over when the routine is.
C2_UninstallTakesPrecedence ==
    args.uninstall =>
        /\ Tables(stdout) = << >>
        /\ pc \in UninstallPcs
        /\ shortcuts_map = EmptyMap
        /\ pc = "done" => uninstallEntered /\ exit /= << >>

C2_Witness ==
    /\ pc = "done"
    /\ args.uninstall /\ args.movement /\ args.edit /\ args.recall /\ args.process
    /\ uninstallEntered
    /\ stdout /= << >>
    /\ Tables(stdout) = << >>

Blank == { " ", "\n", "\t", "\r" }

YesWords ==
    { << "y" >>, << "Y" >> } \cup
    { << a, b, c >> : a \in { "y", "Y" }, b \in { "e", "E" }, c \in { "s", "S" } }

\* a raw line that is "y" or "yes" in any letter case between leading and
\* trailing whitespace
SaysYes(raw) ==
    \E i \in 0..Len(raw), j \in 0..Len(raw) :
        /\ i <= j
        /\ \A k \in 1..i : raw[k] \in Blank
        /\ \A k \in (j + 1)..Len(raw) : raw[k] \in Blank
        /\ SubSeq(raw, i + 1, j) \in YesWords

\* C3: a line read from standard input that is not "y"/"yes" after trimming
\* and lower-casing (the empty line and end of stream included) deletes
\* nothing; the routine returns Ok and the process exits with status 0.
C3_DeclinedDeletesNothing ==
    (readResult = "ok" /\ ~SaysYes(line)) =>
        /\ removeResult = "none"
        /\ exeExists
        /\ pc \in { "confirm", "done" }
        /\ pc = "done" => exit = << 0 >> /\ stderr = << >>

C3_Witness ==
    /\ pc = "done"
    /\ readResult = "ok"
    /\ line = << "y", "e", "\n" >>
    /\ exeExists
    /\ exit = << 0 >>

SuccessPrinted ==
    \E o \in Range(stdout) :
        o.type = "text" /\ o.text = "Successfully uninstalled 'bk' from " \o exe_path

FailurePrinted ==
    /\ \E o \in Range(stderr), e \in RemoveErrors :
          o.type = "text" /\ o.text = "Failed to remove binary: " \o e
    /\ \E o \in Range(stderr) :
          /\ o.type = "text"
          /\ o.text = "You may need to run with elevated privileges or remove it manually."

\* C4: after a yes, a successful deletion leaves no file, prints the success
\* message and exits 0; a failed deletion leaves the file, prints the cause
\* and the elevated-privileges hint, prints no success message and exits
\* with a non-zero status.
C4_DeletionOutcome ==
    /\ removeResult = "ok" =>
          /\ ~exeExists
          /\ SuccessPrinted
          /\ exit = << 0 >>
          /\ pc = "done"
    /\ removeResult = "err" =>
          /\ exeExists
          /\ FailurePrinted
          /\ ~SuccessPrinted
          /\ pc = "done"
          /\ Len(exit) = 1 /\ exit[1] /= 0

C4_Witness ==
    /\ removeResult = "err"
    /\ SaysYes(line)
    /\ exeExists
    /\ FailurePrinted
    /\ exit = << 1 >>

PromptPrinted ==
    /\ exe_path \in ExePaths
    /\ \E i \in 1..Len(stdout), j \in 1..Len(stdout) :
          /\ i < j
          /\ stdout[i] = Text("  " \o exe_path)
          /\ stdout[j] = Text("Are you sure you want to uninstall? (y/N): ")

\* C5: the executable is deleted only after the prompt showing the resolved
\* path and a yes typed interactively; with standard input closed,
\* redirected or piped, or with no resolved path, no deletion is attempted.
C5_NeverNonInteractive ==
    /\ removeResult /= "none" =>
          /\ PromptPrinted
          /\ SaysYes(line)
          /\ stdinKind = "tty"
    /\ (stdinKind /= "tty" \/ exe_path \notin ExePaths) => removeResult = "none"

BadArguments == \E o \in Range(stderr) : o.type = "usage"

ResolveFailed ==
    Text("Error during uninstall: Failed to get current executable path") \in Range(stderr)

DeletionFailed == removeResult = "err"

TablesPrinted == TablesDone /\ Tables(stdout) /= << >>

UninstallCompleted == pc = "done" /\ removeResult = "ok"

UninstallCancelled == pc = "done" /\ Text("Uninstall cancelled.") \in Range(stdout)

SuccessfulRun == TablesPrinted \/ UninstallCompleted \/ UninstallCancelled

\* C6 as the specification states it: status 0 on every successful run and
\* status 1 on every error, bad arguments included.
C6_ExitZeroOrOne ==
    pc = "done" =>
        /\ SuccessfulRun => exit = << 0 >>
        /\ (BadArguments \/ ResolveFailed \/ DeletionFailed) => exit = << 1 >>

\* C6 (amended): status 0 on every successful run, status 1 when the
\* executable path cannot be resolved or the deletion fails, and status 2
\* when the arguments are refused.
C6_ExitCodes ==
    pc = "done" =>
        /\ SuccessfulRun => exit = << 0 >>
        /\ (ResolveFailed \/ DeletionFailed) => exit = << 1 >>
        /\ BadArguments => exit = << 2 >>

C6_Witness ==
    /\ pc = "done"
    /\ ResolveFailed
    /\ exit = << 1 >>

OffendingTokens == { "-x", "--unknown", "--movement=true", "--uninstall=true", "extra_arg" }

InfoTokens == { "--help", "--version" }

Offending(list) == { i \in 1..Len(list) : list[i] \in OffendingTokens }

FirstOffending(list) == CHOOSE i \in Offending(list) : \A j \in Offending(list) : i <= j

InfoBeforeOffending(list) ==
    \E j \in 1..Len(list) : j < FirstOffending(list) /\ list[j] \in InfoTokens

\* the run ends inside argument parsing with nothing rendered or uninstalled
EndsInParse ==
    /\ pc' = "done"
    /\ Tables(stdout') = << >>
    /\ ~uninstallEntered'
    /\ exeExists'

\* C7 as the specification states it: every argument list with an unknown
\* flag, a value on a boolean flag or a positional argument ends the process
\* with a non-zero status, no table and no uninstall.
C7_AlwaysRejected ==
    [][(pc = "parse" /\ Offending(argv) /= {}) =>
          (EndsInParse /\ Len(exit') = 1 /\ exit'[1] /= 0)]_vars

\* C7 (amended): such an argument list always ends the process inside
\* argument parsing, with no table and no uninstall; the status is non-zero
\* unless a help or version flag stands before the first offending argument.
C7_RejectedUnlessInfoFirst ==
    [][(pc = "parse" /\ Offending(argv) /= {}) =>
          /\ EndsInParse
          /\ ~InfoBeforeOffending(argv) => (Len(exit') = 1 /\ exit'[1] /= 0)]_vars

C7_Witness ==
    /\ pc = "done"
    /\ stderr = << [type |-> "usage", error |-> "TooManyValues", arg |-> "--uninstall=true"] >>
    /\ exit = << 2 >>
    /\ stdout = << >>
    /\ ~uninstallEntered

LowercaseKeys == { "movement", "edit", "history", "process" }

\* C8: the registry init_shortcuts returns has a non-empty entry list under
\* each of the keys "movement", "edit", "history" and "process".
C8_LowercaseKeysPresent ==
    pc = "select" =>
        \A k \in LowercaseKeys : ContainsKey(shortcuts_map, k) /\ shortcuts_map[k] /= << >>

\* the table display_shortcuts printed shows `list` under the header of `cat`
Shows(table, cat, list) ==
    /\ Len(table) = 1 + Len(list)
    /\ table[1] = << cat \o " related shortcuts" >>
    /\ \A i \in 1..Len(list) :
          /\ Len(table[i + 1]) = 2
          /\ list[i].key \in Range(table[i + 1])
          /\ list[i].description \in Range(table[i + 1])

C9_Rendered ==
    pc = "displayed" =>
        /\ Len(stdout) = 1
        /\ stdout[1].type = "table"
        /\ \E c \in DOMAIN shortcuts_map : Shows(stdout[1].table, c, shortcuts_map[c])

\* C9: display_shortcuts prints one header line naming the category, then
\* one row per entry of the list in the list's order, none dropped, doubled
\* or moved; the empty list gives the header alone; the registry is left
\* as it was.
C9_HeaderThenEntries == []C9_Rendered /\ [][shortcuts_map' = shortcuts_map]_vars

C9_Witness ==
    /\ pc = "displayed"
    /\ \E c \in DOMAIN shortcuts_map : shortcuts_map[c] = << >>
    /\ stdout = << TableOut(<< << "Recall related shortcuts" >> >>) >>

AllCategoryFlags ==
    [DefaultArgs EXCEPT !.movement = TRUE, !.edit = TRUE, !.recall = TRUE, !.process = TRUE]

\* what the four `if args.<flag>` blocks of main print for flags `a`
SelectedOutput(a, map) ==
    DisplayIfFlag(
        DisplayIfFlag(
            DisplayIfFlag(
                DisplayIfFlag(<< >>, a, map, "movement", "Movement", "Movement"),
                a, map, "edit", "Edit", "Edit"),
            a, map, "recall", "History", "Recall"),
        a, map, "process", "Process", "Process")

\* C10: a run with no category flag prints what a run with all four
\* category flags prints: the same sections, headers and rows in the same
\* order.
C10_NoFlagSameAsAllFlags ==
    (TablesDone /\ NoCategoryFlag(args)) =>
        stdout = SelectedOutput(AllCategoryFlags, shortcuts_map)

====
